---------------------------- MODULE Spec2Model ----------------------------
(***************************************************************************)
(* A model of the resumable comment fetcher (src/yt_fetch_comments.py):    *)
(* fetch_all_comments as a sequential state machine over a fixed upstream, *)
(* one step per remote call and per appended row, followed by main's       *)
(* deduplication.  Several runs may follow each other against the same     *)
(* checkpoint file.  The relabelling of cluster labels in                  *)
(* src/cluster_comments.py (lines 70-88) is a second state machine with    *)
(* its own specification, ClusterSpec.                                     *)
(*                                                                         *)
(* The API key is taken to be set (line 36).                               *)
(*                                                                         *)
(* Encoding: Python's None is 0 for page tokens, comment ids and limits    *)
(* (the code tests all of them by truthiness).  The page token of thread   *)
(* page p (p = 1, 2, ...) is p - 1, so "no token" requests the first page; *)
(* reply pages are numbered the same way.                                  *)
(***************************************************************************)
EXTENDS Integers, Sequences, FiniteSets, TLC

(* ------------------------------ bounds -------------------------------- *)
\* Runs of the program that follow each other on one checkpoint file.
MaxRuns == 3
\* Page-token faults the upstream raises within one run.
MaxFaults == 2
\* Rows one run accumulates before the model stops following it.
MaxRows == 9
\* Rows of the data frame the relabelling is given.
MaxLabelRows == 5
\* Clusters the clustering step finds (labels 0 .. MaxClusters - 1).
MaxClusters == 2
\* Times the relabelling is run over one label vector.
MaxPasses == 2

(* ----------------------------- upstream ------------------------------- *)
\* A thread: its top-level comment id, totalReplyCount, the replies inlined
\* in the thread page and the pages comments.list serves for it.
T1 == [id |-> 1, totalReplyCount |-> 0, inline |-> <<>>, rpages |-> <<>>]
T2 == [id |-> 2, totalReplyCount |-> 3, inline |-> <<>>,
       rpages |-> << <<21, 22>>, <<23>> >>]
T3 == [id |-> 3, totalReplyCount |-> 1, inline |-> <<31>>,
       rpages |-> << <<31>> >>]

\* Three videos: a mixed one, one whose threads all have replies, and the
\* latter with a thread list whose last page names itself as the next page.
Mixed == [pages |-> << <<T1, T2>>, <<T3>> >>, next |-> <<1, 0>>]
AllReplies == [pages |-> << <<T2>>, <<T3>> >>, next |-> <<1, 0>>]
Cyclic == [pages |-> << <<T2>>, <<T3>> >>, next |-> <<1, 1>>]
Upstreams == {Mixed, AllReplies, Cyclic}

\* What a remote call can do: answer, or raise one of three kinds of error.
Outcomes == {"ok", "quotaExceeded", "invalidPageToken", "other"}

(* --------------------------- configuration ---------------------------- *)
\* The arguments of fetch_all_comments (lines 25-34) a run is started with.
\* The limits are tried alone and together; without a checkpoint path the
\* interval and resume have no effect (lines 49, 61, 70) and keep their
\* defaults.
LimitChoices == { <<0, 0>>, <<1, 0>>, <<3, 0>>, <<0, 2>>, <<3, 2>> }
IntervalChoices == {2, 500}
Orders == {"time"}
VideoId == "v"

Configs ==
  { c \in [ order : Orders,
            max_top_level : {0, 1, 3},
            no_replies : BOOLEAN,
            max_total : {0, 2},
            save_state_path : BOOLEAN,
            resume : BOOLEAN,
            checkpoint_interval : IntervalChoices ] :
      /\ << c.max_top_level, c.max_total >> \in LimitChoices
      /\ ~c.save_state_path => c.checkpoint_interval = 500 /\ ~c.resume }

VARIABLES
  up,               \* the upstream video, fixed
  cfg,              \* the arguments of the current run
  file,             \* the checkpoint file: [exists, data]
  state,            \* the in-memory traversal state of the run
  rows,             \* the row accumulator
  total_rows,
  fetched_threads,
  page_token,
  seen_tokens,
  resp,             \* the thread-list response being processed
  item,             \* index of the thread being processed in resp.items
  top_id,
  reply_page,
  reply_resp,       \* the reply response being processed
  ridx,             \* index of the next reply of the inner for loop
  pc,               \* position of the run
  stop,             \* how the run ended ("none" while it runs)
  faults,           \* page-token faults raised so far in the run
  outcome,          \* what the last remote call of the run did
  csv,              \* the rows main wrote in this run
  runNo,            \* history: number of runs started
  prevIds,          \* history: comment ids the earlier runs of the chain returned
  prevStops,        \* history: how the earlier runs of the chain ended, and
                    \*          "pagefault" when one of them met a page-token fault
  chainFresh,       \* history: the chain's first run started from a fresh state
  loaded,           \* history: the traversal state the run started from
  firstCall         \* history: the first remote call of the run

\* The relabelling of cluster_comments.main (lines 70-88).
VARIABLES
  labels,           \* the label vector cluster_dbscan returned, one per row
  row,              \* the index enumerate(labels) has reached (i at line 75)
  groups,           \* the dict, as its items in insertion order
  next_id,
  ordered,
  id_map,
  cid,
  cluster_id,       \* the column assigned at line 88
  cpc,              \* position of the relabelling
  passNo,           \* history: number of the pass over the label vector
  prevPass          \* history: what the pass before this one ended with

fetcher == << up, cfg, file, state, rows, total_rows, fetched_threads, page_token,
              seen_tokens, resp, item, top_id, reply_page, reply_resp, ridx, pc,
              stop, faults, outcome, csv, runNo, prevIds, prevStops, chainFresh,
              loaded, firstCall >>

cluster == << labels, row, groups, next_id, ordered, id_map, cid, cluster_id,
              cpc, passNo, prevPass >>

vars == << up, cfg, file, state, rows, total_rows, fetched_threads, page_token,
           seen_tokens, resp, item, top_id, reply_page, reply_resp, ridx, pc,
           stop, faults, outcome, csv, runNo, prevIds, prevStops, chainFresh, loaded,
           firstCall, labels, row, groups, next_id, ordered, id_map, cid, cluster_id,
           cpc, passNo, prevPass >>

locals == << rows, total_rows, fetched_threads, page_token, seen_tokens, resp,
             item, top_id, reply_page, reply_resp, ridx >>

history == << runNo, prevIds, prevStops, chainFresh, loaded >>

(* ------------------------- the remote surface ------------------------- *)
ThreadsOf(u) ==
  UNION { { u.pages[p][i] : i \in 1..Len(u.pages[p]) } : p \in 1..Len(u.pages) }

ThreadById(id) == CHOOSE t \in ThreadsOf(up) : t.id = id

\* commentThreads().list(videoId, order, pageToken).execute()
listThreads(tok) ==
  [items |-> up.pages[tok + 1], nextPageToken |-> up.next[tok + 1]]

\* comments().list(parentId, pageToken).execute()
listReplies(parent, tok) ==
  LET t == ThreadById(parent) IN
  [items |-> IF tok + 1 <= Len(t.rpages) THEN t.rpages[tok + 1] ELSE <<>>,
   nextPageToken |-> IF tok + 1 < Len(t.rpages) THEN tok + 1 ELSE 0]

NoResponse == [items |-> <<>>, nextPageToken |-> 0]

(* ------------------------------ helpers ------------------------------- *)
\* The fields of a row the traversal decides; the others are copied from
\* the upstream snippet.
Row(id, parent) == [comment_id |-> id, parent_id |-> parent]

FreshState(c) ==
  [video_id |-> VideoId, order |-> c.order, page_token |-> 0,
   processed_top_level |-> {}, current_top_id |-> 0, reply_page_token |-> 0]

\* Lines 41-58: the prior state is merged over the defaults when the file
\* exists and names the same video and order.
LoadState(c, f) ==
  IF c.resume /\ c.save_state_path /\ f.exists
     /\ f.data.video_id = VideoId /\ f.data.order = c.order
  THEN f.data
  ELSE FreshState(c)

save_state(f, st) ==
  IF cfg.save_state_path THEN [exists |-> TRUE, data |-> st] ELSE f

maybe_checkpoint(f, st, n) ==
  IF cfg.save_state_path /\ cfg.checkpoint_interval # 0
     /\ n % cfg.checkpoint_interval = 0
  THEN save_state(f, st)
  ELSE f

\* Mutant of MaxTotalReached: the limit is passed, not reached.
MaxTotalPassed(n) == cfg.max_total # 0 /\ n > cfg.max_total

\* Lines 97, 151, 166 and 192.
MaxTotalReached(n) == cfg.max_total # 0 /\ n >= cfg.max_total

\* Mutant of MaxTopLevelReached: the limit is passed, not reached.
MaxTopLevelPassed(n) == cfg.max_top_level # 0 /\ n > cfg.max_top_level

\* Line 149.
MaxTopLevelReached(n) == cfg.max_top_level # 0 /\ n >= cfg.max_top_level

\* The error classification of the except blocks: the name of the stop a
\* propagated error leaves behind.
\* Mutant of IsQuota: quota exhaustion is not recognised.
IsQuotaNever(o) == FALSE

\* Mutant of IsQuota: every error is taken for quota exhaustion.
IsQuotaAlways(o) == TRUE

\* Lines 103, 127 and 198: "quotaExceeded" in str(e).
IsQuota(o) == o = "quotaExceeded"

\* Line 130: "processingFailure" in msg or "invalidPageToken" in msg.
IsPageFault(o) == o = "invalidPageToken"

Raised(o, site) ==
  IF IsPageFault(o) THEN "pagefault_" \o site ELSE "fatal_" \o site

\* Mutant of FinishFirst: the checkpointed thread is not taken up.
FinishNever(st, c) == FALSE

\* Line 74: a checkpointed thread is finished first unless replies are
\* suppressed.
FinishFirst(st, c) == st.current_top_id # 0 /\ ~c.no_replies

\* Lines 100 and 195: the reply token follows the page just processed.
AdvanceReply(st, tok) == [st EXCEPT !.reply_page_token = tok]

\* Mutant of MarkProcessed: the thread stays the current one.
MarkProcessedKeepsCurrent(st, id) ==
  [st EXCEPT !.processed_top_level = @ \cup {id}]

\* Lines 107-109 and 202-203: the thread is done.
MarkProcessed(st, id) ==
  [st EXCEPT !.processed_top_level = @ \cup {id},
             !.current_top_id = 0,
             !.reply_page_token = 0]

\* Mutant of StopAtRequest: the next token of the page that was requested,
\* as the limit stops record it.
StopAtRequestSkips(st, tok) == [st EXCEPT !.page_token = up.next[tok + 1]]

\* Line 129: a quota stop of the thread list keeps the token just requested.
StopAtRequest(st, tok) == [st EXCEPT !.page_token = tok]

\* Lines 150, 152 and 167: a limit stop inside a thread page records the
\* page's next token.
StopInPage(st, r) == [st EXCEPT !.page_token = r.nextPageToken]

\* Mutant of NeedsReplyPages: no thread's replies are paged.
NeedsReplyPagesNever(it) == FALSE

\* Line 170: it["snippet"].get("totalReplyCount", 0).
NeedsReplyPages(it) == it.totalReplyCount # 0

\* Line 171: the thread becomes the current one.
BeginReplies(st, id) ==
  [st EXCEPT !.current_top_id = id, !.reply_page_token = 0]

\* Line 193: a limit stop inside a reply page records the page's next token.
StopInReplyPage(st, r) == [st EXCEPT !.reply_page_token = r.nextPageToken]

NoCall == [kind |-> "none", parent |-> 0, token |-> 0]

NoteCall(kind, parent, tok) ==
  IF firstCall.kind = "none"
  THEN [kind |-> kind, parent |-> parent, token |-> tok]
  ELSE firstCall

\* Lines 240-244 of main: keep the first row of every comment_id.
RECURSIVE DedupFrom(_, _, _)
DedupFrom(rs, seen, clean) ==
  IF rs = <<>> THEN clean
  ELSE IF Head(rs).comment_id \in seen
       THEN DedupFrom(Tail(rs), seen, clean)
       ELSE DedupFrom(Tail(rs), seen \cup {Head(rs).comment_id},
                      Append(clean, Head(rs)))

\* Mutant of Dedup: the seen set is never filled.
DedupKeepsAll(rs) == rs

Dedup(rs) == DedupFrom(rs, {}, <<>>)

Ids(rs) == { rs[i].comment_id : i \in 1..Len(rs) }

(* ------------------------------- Init --------------------------------- *)
DefaultConfig ==
  [order |-> "time", max_top_level |-> 0, no_replies |-> FALSE,
   max_total |-> 0, save_state_path |-> FALSE, resume |-> FALSE,
   checkpoint_interval |-> 500]

FetcherInit ==
  /\ up \in Upstreams
  /\ cfg = DefaultConfig
  /\ file = [exists |-> FALSE, data |-> FreshState(DefaultConfig)]
  /\ state = FreshState(DefaultConfig)
  /\ rows = <<>>
  /\ total_rows = 0
  /\ fetched_threads = 0
  /\ page_token = 0
  /\ seen_tokens = {}
  /\ resp = NoResponse
  /\ item = 0
  /\ top_id = 0
  /\ reply_page = 0
  /\ reply_resp = NoResponse
  /\ ridx = 0
  /\ pc = "idle"
  /\ stop = "none"
  /\ faults = 0
  /\ outcome = "none"
  /\ csv = <<>>
  /\ runNo = 0
  /\ prevIds = {}
  /\ prevStops = {}
  /\ chainFresh = TRUE
  /\ loaded = FreshState(DefaultConfig)
  /\ firstCall = NoCall

NoPass == [cpc |-> "none", id_map |-> <<>>, cluster_id |-> <<>>]

\* The relabelling has not been given a label vector.
ClusterIdle ==
  /\ labels = <<>>
  /\ row = 1
  /\ groups = <<>>
  /\ next_id = 1
  /\ ordered = <<>>
  /\ id_map = <<>>
  /\ cid = 1
  /\ cluster_id = <<>>
  /\ cpc = "idle"
  /\ passNo = 0
  /\ prevPass = NoPass

Init == FetcherInit /\ ClusterIdle

(* ------------------------------ history ------------------------------ *)
\* A chain is a sequence of runs on one checkpoint file in which every run
\* after the first resumes with the options of the run before it.  A run
\* that does not continue the chain starts a new one.
Continues(c) ==
  /\ runNo > 0
  /\ pc = "exited"
  /\ cfg.save_state_path
  /\ c.save_state_path
  /\ c.resume
  /\ c.no_replies = cfg.no_replies
  /\ c.order = cfg.order

\* How a run ended, by kind: the run-level stops of the code, by where the
\* traversal stood.
StopClass(s) ==
  CASE s \in {"quota_resume", "quota_list", "quota_reply"} -> "quota"
    [] s \in {"max_top_level", "max_total_top", "max_total_inline"} -> "limit_threads"
    [] s \in {"max_total_resume", "max_total_reply"} -> "limit_replies"
    [] s = "complete" -> "complete"
    [] OTHER -> "error"

\* What a finished run adds to the chain's record.
RunRecord ==
  {StopClass(stop)} \cup (IF faults > 0 THEN {"pagefault"} ELSE {})

(* ------------------------------ actions ------------------------------- *)
\* Lines 25-76: a run starts, loads or initialises its state and either
\* turns to the checkpointed thread's replies or to the thread list.
StartRun ==
  /\ pc \in {"idle", "exited"}
  /\ UNCHANGED cluster
  /\ runNo < MaxRuns
  /\ \E c \in Configs :
       LET st == LoadState(c, file)
           finish == FinishFirst(st, c)
       IN
       /\ cfg' = c
       /\ state' = st
       /\ loaded' = st
       /\ rows' = <<>>
       /\ total_rows' = 0
       /\ fetched_threads' = 0
       /\ seen_tokens' = {}
       /\ resp' = NoResponse
       /\ item' = 0
       /\ reply_resp' = NoResponse
       /\ ridx' = 0
       /\ top_id' = IF finish THEN st.current_top_id ELSE 0
       /\ reply_page' = IF finish THEN st.reply_page_token ELSE 0
       /\ page_token' = IF finish THEN 0 ELSE st.page_token
       /\ pc' = IF finish THEN "resume_call" ELSE "list_call"
       /\ IF Continues(c)
          THEN UNCHANGED << prevIds, prevStops, chainFresh >>
          ELSE /\ prevIds' = {}
               /\ prevStops' = {}
               /\ chainFresh' = (st = FreshState(c))
  /\ stop' = "none"
  /\ faults' = 0
  /\ outcome' = "none"
  /\ csv' = <<>>
  /\ firstCall' = NoCall
  /\ runNo' = runNo + 1
  /\ UNCHANGED << up, file >>

\* The model follows a run for MaxRows rows only.
Cut ==
  /\ pc' = "cut"
  /\ stop' = "bound"
  /\ UNCHANGED << up, cfg, file, state, locals, faults, outcome, csv, history, firstCall >>

\* Lines 77-85 and 102-106: the reply request of the checkpointed thread.
ResumeCall ==
  /\ pc = "resume_call"
  /\ UNCHANGED cluster
  /\ firstCall' = NoteCall("replies", top_id, reply_page)
  /\ \E o \in Outcomes :
       /\ IsPageFault(o) => faults < MaxFaults
       /\ faults' = IF IsPageFault(o) THEN faults + 1 ELSE faults
       /\ outcome' = o
       /\ CASE o = "ok" ->
                 /\ reply_resp' = listReplies(top_id, reply_page)
                 /\ ridx' = 1
                 /\ pc' = "resume_rows"
                 /\ UNCHANGED << file, stop >>
            [] IsQuota(o) ->
                 /\ file' = save_state(file, state)
                 /\ pc' = "returned"
                 /\ stop' = "quota_resume"
                 /\ UNCHANGED << reply_resp, ridx >>
            [] OTHER ->
                 /\ pc' = "raised"
                 /\ stop' = Raised(o, "resume")
                 /\ UNCHANGED << file, reply_resp, ridx >>
  /\ UNCHANGED << up, cfg, state, rows, total_rows, fetched_threads, page_token,
                  seen_tokens, resp, item, top_id, reply_page, csv, history >>

\* Lines 86-98: one reply of the checkpointed thread is appended.
ResumeRow ==
  /\ pc = "resume_rows"
  /\ UNCHANGED cluster
  /\ ridx <= Len(reply_resp.items)
  /\ IF Len(rows) >= MaxRows THEN Cut
     ELSE
       LET n == total_rows + 1
           f == maybe_checkpoint(file, state, n)
       IN
       /\ rows' = Append(rows, Row(reply_resp.items[ridx], top_id))
       /\ total_rows' = n
       /\ IF MaxTotalReached(n)
          THEN /\ file' = save_state(f, state)
               /\ pc' = "returned"
               /\ stop' = "max_total_resume"
               /\ ridx' = ridx
          ELSE /\ file' = f
               /\ ridx' = ridx + 1
               /\ UNCHANGED << pc, stop >>
       /\ UNCHANGED << up, cfg, state, fetched_threads, page_token, seen_tokens,
                       resp, item, top_id, reply_page, reply_resp, faults, outcome, csv,
                       history, firstCall >>

\* Lines 99-101 and 107-113: the reply page is finished; after the last one
\* the thread is marked processed and the thread list is taken up.
ResumePageDone ==
  /\ pc = "resume_rows"
  /\ UNCHANGED cluster
  /\ ridx > Len(reply_resp.items)
  /\ reply_page' = reply_resp.nextPageToken
  /\ IF reply_resp.nextPageToken # 0
     THEN /\ state' = AdvanceReply(state, reply_resp.nextPageToken)
          /\ pc' = "resume_call"
          /\ UNCHANGED << file, page_token >>
     ELSE /\ state' = MarkProcessed(state, top_id)
          /\ file' = save_state(file, state')
          /\ page_token' = state.page_token
          /\ pc' = "list_call"
  /\ UNCHANGED << up, cfg, rows, total_rows, fetched_threads, seen_tokens, resp,
                  item, top_id, reply_resp, ridx, stop, faults, outcome, csv, history,
                  firstCall >>

\* Lines 115-132: the thread-list request and its except block.
ListCall ==
  /\ pc = "list_call"
  /\ UNCHANGED cluster
  /\ firstCall' = NoteCall("threads", 0, page_token)
  /\ \E o \in Outcomes :
       /\ IsPageFault(o) => faults < MaxFaults
       /\ faults' = IF IsPageFault(o) THEN faults + 1 ELSE faults
       /\ outcome' = o
       /\ CASE o = "ok" ->
                 /\ resp' = listThreads(page_token)
                 /\ item' = 1
                 /\ pc' = "items"
                 /\ UNCHANGED << state, file, page_token, stop >>
            [] IsQuota(o) ->
                 /\ state' = StopAtRequest(state, page_token)
                 /\ file' = save_state(file, state')
                 /\ pc' = "returned"
                 /\ stop' = "quota_list"
                 /\ UNCHANGED << resp, item, page_token >>
            [] IsPageFault(o) /\ page_token # 0 ->
                 /\ page_token' = 0
                 /\ UNCHANGED << state, file, resp, item, pc, stop >>
            [] OTHER ->
                 /\ pc' = "raised"
                 /\ stop' = Raised(o, "list")
                 /\ UNCHANGED << state, file, resp, item, page_token >>
  /\ UNCHANGED << up, cfg, rows, total_rows, fetched_threads, seen_tokens, top_id,
                  reply_page, reply_resp, ridx, csv, history >>

\* Lines 135-154: the next thread of the page: skipped when already
\* processed, else its top-level row is appended and the limits are tested.
ItemTop ==
  /\ pc = "items"
  /\ UNCHANGED cluster
  /\ item <= Len(resp.items)
  /\ LET it == resp.items[item] IN
     IF it.id \in state.processed_top_level
     THEN /\ top_id' = it.id
          /\ item' = item + 1
          /\ UNCHANGED << up, cfg, file, state, rows, total_rows, fetched_threads,
                          page_token, seen_tokens, resp, reply_page, reply_resp,
                          ridx, pc, stop, faults, outcome, csv, history, firstCall >>
     ELSE IF Len(rows) >= MaxRows THEN Cut
     ELSE
       LET n == total_rows + 1
           k == fetched_threads + 1
           f == maybe_checkpoint(file, state, n)
       IN
       /\ top_id' = it.id
       /\ rows' = Append(rows, Row(it.id, 0))
       /\ total_rows' = n
       /\ fetched_threads' = k
       /\ IF MaxTopLevelReached(k) \/ MaxTotalReached(n)
          THEN /\ state' = StopInPage(state, resp)
               /\ file' = save_state(f, state')
               /\ pc' = "returned"
               /\ stop' = IF MaxTopLevelReached(k)
                          THEN "max_top_level" ELSE "max_total_top"
               /\ UNCHANGED << item, ridx >>
          ELSE /\ file' = f
               /\ IF ~cfg.no_replies
                  THEN /\ pc' = "inline"
                       /\ ridx' = 1
                       /\ item' = item
                  ELSE /\ item' = item + 1
                       /\ UNCHANGED << pc, ridx >>
               /\ UNCHANGED << state, stop >>
       /\ UNCHANGED << up, cfg, page_token, seen_tokens, resp, reply_page,
                       reply_resp, faults, outcome, csv, history, firstCall >>

\* Lines 156-167: one reply inlined in the thread page is appended.
InlineRow ==
  /\ pc = "inline"
  /\ UNCHANGED cluster
  /\ ridx <= Len(resp.items[item].inline)
  /\ IF Len(rows) >= MaxRows THEN Cut
     ELSE
       LET n == total_rows + 1
           f == maybe_checkpoint(file, state, n)
       IN
       /\ rows' = Append(rows, Row(resp.items[item].inline[ridx], top_id))
       /\ total_rows' = n
       /\ IF MaxTotalReached(n)
          THEN /\ state' = StopInPage(state, resp)
               /\ file' = save_state(f, state')
               /\ pc' = "returned"
               /\ stop' = "max_total_inline"
               /\ ridx' = ridx
          ELSE /\ file' = f
               /\ ridx' = ridx + 1
               /\ UNCHANGED << state, pc, stop >>
       /\ UNCHANGED << up, cfg, fetched_threads, page_token, seen_tokens, resp,
                       item, top_id, reply_page, reply_resp, faults, outcome, csv, history,
                       firstCall >>

\* Lines 169-172: after the inlined replies, a thread with a positive reply
\* count becomes the current thread and its reply pagination starts.
InlineDone ==
  /\ pc = "inline"
  /\ UNCHANGED cluster
  /\ ridx > Len(resp.items[item].inline)
  /\ IF NeedsReplyPages(resp.items[item])
     THEN /\ state' = BeginReplies(state, top_id)
          /\ file' = save_state(file, state')
          /\ reply_page' = 0
          /\ pc' = "reply_call"
          /\ item' = item
     ELSE /\ item' = item + 1
          /\ pc' = "items"
          /\ UNCHANGED << state, file, reply_page >>
  /\ UNCHANGED << up, cfg, rows, total_rows, fetched_threads, page_token,
                  seen_tokens, resp, top_id, reply_resp, ridx, stop, faults, outcome, csv,
                  history, firstCall >>

\* Lines 173-181 and 197-201: a reply request of the main loop.
ReplyCall ==
  /\ pc = "reply_call"
  /\ UNCHANGED cluster
  /\ firstCall' = NoteCall("replies", top_id, reply_page)
  /\ \E o \in Outcomes :
       /\ IsPageFault(o) => faults < MaxFaults
       /\ faults' = IF IsPageFault(o) THEN faults + 1 ELSE faults
       /\ outcome' = o
       /\ CASE o = "ok" ->
                 /\ reply_resp' = listReplies(top_id, reply_page)
                 /\ ridx' = 1
                 /\ pc' = "reply_rows"
                 /\ UNCHANGED << file, stop >>
            [] IsQuota(o) ->
                 /\ file' = save_state(file, state)
                 /\ pc' = "returned"
                 /\ stop' = "quota_reply"
                 /\ UNCHANGED << reply_resp, ridx >>
            [] OTHER ->
                 /\ pc' = "raised"
                 /\ stop' = Raised(o, "reply")
                 /\ UNCHANGED << file, reply_resp, ridx >>
  /\ UNCHANGED << up, cfg, state, rows, total_rows, fetched_threads, page_token,
                  seen_tokens, resp, item, top_id, reply_page, csv, history >>

\* Lines 182-193: one paginated reply is appended.
ReplyRow ==
  /\ pc = "reply_rows"
  /\ UNCHANGED cluster
  /\ ridx <= Len(reply_resp.items)
  /\ IF Len(rows) >= MaxRows THEN Cut
     ELSE
       LET n == total_rows + 1
           f == maybe_checkpoint(file, state, n)
       IN
       /\ rows' = Append(rows, Row(reply_resp.items[ridx], top_id))
       /\ total_rows' = n
       /\ IF MaxTotalReached(n)
          THEN /\ state' = StopInReplyPage(state, reply_resp)
               /\ file' = save_state(f, state')
               /\ pc' = "returned"
               /\ stop' = "max_total_reply"
               /\ ridx' = ridx
          ELSE /\ file' = f
               /\ ridx' = ridx + 1
               /\ UNCHANGED << state, pc, stop >>
       /\ UNCHANGED << up, cfg, fetched_threads, page_token, seen_tokens, resp,
                       item, top_id, reply_page, reply_resp, faults, outcome, csv, history,
                       firstCall >>

\* Lines 194-196 and 202-203: the reply page is finished; after the last
\* one the thread is marked processed and the next thread is taken up.
ReplyPageDone ==
  /\ pc = "reply_rows"
  /\ UNCHANGED cluster
  /\ ridx > Len(reply_resp.items)
  /\ reply_page' = reply_resp.nextPageToken
  /\ IF reply_resp.nextPageToken # 0
     THEN /\ state' = AdvanceReply(state, reply_resp.nextPageToken)
          /\ pc' = "reply_call"
          /\ UNCHANGED << file, item >>
     ELSE /\ state' = MarkProcessed(state, top_id)
          /\ file' = save_state(file, state')
          /\ item' = item + 1
          /\ pc' = "items"
  /\ UNCHANGED << up, cfg, rows, total_rows, fetched_threads, page_token,
                  seen_tokens, resp, top_id, reply_resp, ridx, stop, faults, outcome, csv,
                  history, firstCall >>

\* Lines 205-210: the page is finished: the run returns after the last
\* page, restarts from the first page on a token seen before, else goes on.
PageDone ==
  /\ pc = "items"
  /\ UNCHANGED cluster
  /\ item > Len(resp.items)
  /\ LET next_tok == resp.nextPageToken IN
     IF next_tok = 0
     THEN /\ pc' = "returned"
          /\ stop' = "complete"
          /\ UNCHANGED << page_token, seen_tokens >>
     ELSE IF next_tok \in seen_tokens
     THEN /\ page_token' = 0
          /\ pc' = "list_call"
          /\ UNCHANGED << stop, seen_tokens >>
     ELSE /\ seen_tokens' = seen_tokens \cup {next_tok}
          /\ page_token' = next_tok
          /\ pc' = "list_call"
          /\ UNCHANGED stop
  /\ UNCHANGED << up, cfg, file, state, rows, total_rows, fetched_threads, resp,
                  item, top_id, reply_page, reply_resp, ridx, faults, outcome, csv, history,
                  firstCall >>

\* Lines 230-249 of main: the returned rows are deduplicated and written,
\* unless there are none.
MainWrite ==
  /\ pc = "returned"
  /\ UNCHANGED cluster
  /\ csv' = IF rows = <<>> THEN csv ELSE Dedup(rows)
  /\ pc' = "exited"
  /\ prevIds' = prevIds \cup Ids(rows)
  /\ prevStops' = prevStops \cup RunRecord
  /\ UNCHANGED << up, cfg, file, state, locals, stop, faults, outcome, runNo, chainFresh,
                  loaded, firstCall >>

\* An error raised by fetch_all_comments leaves main before anything is
\* written.
MainAbort ==
  /\ pc = "raised"
  /\ UNCHANGED cluster
  /\ pc' = "exited"
  /\ prevStops' = prevStops \cup RunRecord
  /\ UNCHANGED << up, cfg, file, state, locals, stop, faults, outcome, csv, runNo,
                  prevIds, chainFresh, loaded, firstCall >>

RunStep ==
  \/ ResumeCall
  \/ ResumeRow
  \/ ResumePageDone
  \/ ListCall
  \/ ItemTop
  \/ InlineRow
  \/ InlineDone
  \/ ReplyCall
  \/ ReplyRow
  \/ ReplyPageDone
  \/ PageDone
  \/ MainWrite
  \/ MainAbort

Next ==
  \/ StartRun
  \/ ResumeCall
  \/ ResumeRow
  \/ ResumePageDone
  \/ ListCall
  \/ ItemTop
  \/ InlineRow
  \/ InlineDone
  \/ ReplyCall
  \/ ReplyRow
  \/ ReplyPageDone
  \/ PageDone
  \/ MainWrite
  \/ MainAbort

Spec == Init /\ [][Next]_vars

\* The program is sequential: a run that can take a step takes it.
FairSpec == Init /\ [][Next]_vars /\ WF_vars(RunStep)

TypeOK ==
  /\ pc \in {"idle", "resume_call", "resume_rows", "list_call", "items", "inline",
             "reply_call", "reply_rows", "returned", "raised", "cut", "exited"}
  /\ total_rows = Len(rows)
  /\ Len(rows) <= MaxRows

(* ------------------- the relabelling (cluster_comments) --------------- *)
\* Rows are numbered from 1 here (Python: from 0).  A dict is the sequence
\* of its items in insertion order, as Python iterates it.
Noise == -1

\* The label vectors cluster_dbscan (lines 22-25) can return for 1 to
\* MaxLabelRows rows: -1 for noise, and the cluster labels in use are
\* 0 .. n-1, in any row order.
LabelVectors ==
  { v \in UNION { [1..n -> Noise..(MaxClusters - 1)] : n \in 1..MaxLabelRows } :
      \A i \in 1..Len(v) : \A l \in 0..(v[i] - 1) : \E j \in 1..Len(v) : v[j] = l }

HasKey(d, k) == \E j \in 1..Len(d) : d[j].key = k

KeyIndex(d, k) == CHOOSE j \in 1..Len(d) : d[j].key = k

\* Line 77: groups[next_id] = [i]; an existing key keeps its place and gets
\* the new value.
SetItem(d, k, v) ==
  IF HasKey(d, k)
  THEN [d EXCEPT ![KeyIndex(d, k)].val = v]
  ELSE Append(d, [key |-> k, val |-> v])

\* Line 79: groups.setdefault(lab, []).append(i).
SetDefaultAppend(d, k, i) ==
  IF HasKey(d, k)
  THEN [d EXCEPT ![KeyIndex(d, k)].val = Append(@, i)]
  ELSE Append(d, [key |-> k, val |-> <<i>>])

Values(d) == [j \in 1..Len(d) |-> d[j].val]

\* The place of g in a list sorted by size, largest first: behind every
\* list at least as long, as a stable sort leaves it.
InsertBySize(sorted, g) ==
  LET before == { j \in 1..Len(sorted) : Len(sorted[j]) >= Len(g) }
      k == Cardinality(before)
  IN SubSeq(sorted, 1, k) \o << g >> \o SubSeq(sorted, k + 1, Len(sorted))

RECURSIVE SortFrom(_, _)
SortFrom(gs, sorted) ==
  IF gs = <<>> THEN sorted
  ELSE SortFrom(Tail(gs), InsertBySize(sorted, Head(gs)))

\* Mutant of SortedBySize: the groups keep the order of the dict.
SortedAsInserted(gs) == gs

\* Line 81: sorted(groups.values(), key=len, reverse=True).
SortedBySize(gs) == SortFrom(gs, <<>>)

Members(g) == { g[j] : j \in 1..Len(g) }

\* Lines 84-85: every index of the group is given the id.
AssignIds(m, g, c) ==
  [x \in (DOMAIN m) \cup Members(g) |-> IF x \in Members(g) THEN c ELSE m[x]]

\* The fetcher stands still while the relabelling runs.
ClusterInit ==
  /\ FetcherInit
  /\ up = Mixed
  /\ labels \in LabelVectors
  /\ row = 1
  /\ groups = <<>>
  /\ next_id = 1
  /\ ordered = <<>>
  /\ id_map = <<>>
  /\ cid = 1
  /\ cluster_id = <<>>
  /\ cpc = "group"
  /\ passNo = 1
  /\ prevPass = NoPass

\* Lines 75-79: the next row is put into its group.
GroupRow ==
  /\ cpc = "group"
  /\ row <= Len(labels)
  /\ IF labels[row] = Noise
     THEN /\ groups' = SetItem(groups, next_id, << row >>)
          /\ next_id' = next_id + 1
     ELSE /\ groups' = SetDefaultAppend(groups, labels[row], row)
          /\ UNCHANGED next_id
  /\ row' = row + 1
  /\ UNCHANGED << labels, ordered, id_map, cid, cluster_id, cpc, passNo, prevPass >>
  /\ UNCHANGED fetcher

\* Lines 81-83: after the last row the groups are sorted by size.
SortGroups ==
  /\ cpc = "group"
  /\ row > Len(labels)
  /\ ordered' = SortedBySize(Values(groups))
  /\ id_map' = <<>>
  /\ cid' = 1
  /\ cpc' = "assign"
  /\ UNCHANGED << labels, row, groups, next_id, cluster_id, passNo, prevPass >>
  /\ UNCHANGED fetcher

\* Lines 84-86: the next group's rows get the next compact id.
AssignGroup ==
  /\ cpc = "assign"
  /\ cid <= Len(ordered)
  /\ id_map' = AssignIds(id_map, ordered[cid], cid)
  /\ cid' = cid + 1
  /\ UNCHANGED << labels, row, groups, next_id, ordered, cluster_id, cpc, passNo,
                  prevPass >>
  /\ UNCHANGED fetcher

\* Line 88: the column is built from id_map, row by row; a row without an
\* entry raises KeyError.
AssignColumn ==
  /\ cpc = "assign"
  /\ cid > Len(ordered)
  /\ IF \A x \in 1..Len(labels) : x \in DOMAIN id_map
     THEN /\ cluster_id' = [x \in 1..Len(labels) |-> id_map[x]]
          /\ cpc' = "done"
     ELSE /\ cpc' = "keyerror"
          /\ UNCHANGED cluster_id
  /\ UNCHANGED << labels, row, groups, next_id, ordered, id_map, cid, passNo,
                  prevPass >>
  /\ UNCHANGED fetcher

\* The program is run again over the same label vector.
Rerun ==
  /\ cpc \in {"done", "keyerror"}
  /\ passNo < MaxPasses
  /\ prevPass' = [cpc |-> cpc, id_map |-> id_map, cluster_id |-> cluster_id]
  /\ passNo' = passNo + 1
  /\ row' = 1
  /\ groups' = <<>>
  /\ next_id' = 1
  /\ ordered' = <<>>
  /\ id_map' = <<>>
  /\ cid' = 1
  /\ cluster_id' = <<>>
  /\ cpc' = "group"
  /\ UNCHANGED labels
  /\ UNCHANGED fetcher

ClusterNext ==
  \/ GroupRow
  \/ SortGroups
  \/ AssignGroup
  \/ AssignColumn
  \/ Rerun

ClusterSpec == ClusterInit /\ [][ClusterNext]_vars

(* ============================== claims =============================== *)
\* The comment ids one uninterrupted, unlimited run over the upstream
\* collects: every top-level comment and, unless replies are suppressed,
\* the inlined replies and the reply pages of every thread with replies.
RepliesOf(t) ==
  { t.inline[i] : i \in 1..Len(t.inline) } \cup
  (IF t.totalReplyCount # 0
   THEN UNION { { t.rpages[j][i] : i \in 1..Len(t.rpages[j]) } :
                j \in 1..Len(t.rpages) }
   ELSE {})

UninterruptedIds(no_replies) ==
  UNION { {t.id} \cup (IF no_replies THEN {} ELSE RepliesOf(t)) :
          t \in ThreadsOf(up) }

NoLimits == cfg.max_top_level = 0 /\ cfg.max_total = 0

\* The upstream's thread pages follow each other and no page token repeats.
Linear(u) ==
  \A p \in 1..Len(u.pages) : u.next[p] = IF p < Len(u.pages) THEN p ELSE 0

\* C1: no loss on interrupt.  In a chain that starts fresh and whose earlier
\* runs were all stopped by quota exhaustion (at the thread list, in the
\* main loop's replies or while finishing a checkpointed thread), when the
\* resuming run without limits completes, the ids of all runs together are
\* those of one uninterrupted run; with no earlier run this is the
\* uninterrupted run itself.
NoLossOnInterrupt ==
  (/\ pc = "returned"
   /\ stop = "complete"
   /\ chainFresh
   /\ NoLimits
   /\ prevStops \subseteq {"quota", "pagefault"})
  => prevIds \cup Ids(rows) = UninterruptedIds(cfg.no_replies)

\* C1 witness: the third run of a chain completes after a run stopped by
\* quota while finishing a checkpointed thread on its second reply page.
NoLossOnInterruptWitness ==
  /\ pc = "returned"
  /\ stop = "complete"
  /\ chainFresh
  /\ NoLimits
  /\ prevStops = {"quota"}
  /\ runNo = 3
  /\ loaded.current_top_id # 0
  /\ loaded.reply_page_token # 0
  /\ rows # <<>>

\* C2: no re-emission on resume.  Over an upstream without repeated page
\* tokens, a run without limits resuming a chain whose earlier runs were
\* stopped by quota (and met no other fault) returns no comment id an earlier
\* run returned.
NoReEmissionOnResume ==
  (/\ pc = "returned"
   /\ chainFresh
   /\ Linear(up)
   /\ NoLimits
   /\ faults = 0
   /\ prevStops = {"quota"})
  => Ids(rows) \cap prevIds = {}

\* C3: idempotence.  After a run of the chain completed the thread list with
\* a checkpoint path configured, a resuming run over the same upstream
\* returns no rows.
IdempotentAfterCompletion ==
  (/\ pc = "returned"
   /\ stop = "complete"
   /\ chainFresh
   /\ Linear(up)
   /\ NoLimits
   /\ faults = 0
   /\ prevStops = {"complete"})
  => rows = <<>>

\* C4: uniqueness of the output.  What main writes is the accumulated rows
\* reduced to the first occurrence of every comment_id, in the order of the
\* accumulator, so no two written rows share a comment_id.
FirstOccurrences(rs) ==
  { i \in 1..Len(rs) : \A j \in 1..(i - 1) : rs[j].comment_id # rs[i].comment_id }

OutputIsFirstOccurrences ==
  pc = "exited" /\ StopClass(stop) # "error" =>
    LET first == FirstOccurrences(rows) IN
    /\ Len(csv) = Cardinality(first)
    /\ \A i \in first : csv[Cardinality({ j \in first : j <= i })] = rows[i]
    /\ \A a, b \in 1..Len(csv) : a # b => csv[a].comment_id # csv[b].comment_id

\* C4 witness: main has written rows of a run whose accumulator repeated a
\* comment id before its end.
OutputIsFirstOccurrencesWitness ==
  /\ pc = "exited"
  /\ StopClass(stop) # "error"
  /\ Len(csv) >= 3
  /\ \E i, j \in 1..Len(rows) :
       i < j /\ j < Len(rows) /\ rows[i].comment_id = rows[j].comment_id

\* C5: reply priority.  As claimed, for every configuration: a run that
\* starts from a checkpoint with current_top_id set makes its first remote
\* call for that thread's replies at the checkpointed reply token, and
\* stands at a thread-list request only after that thread's replies ended.
FirstCallIsCheckpointedReplies ==
  /\ firstCall.kind # "none" =>
       firstCall = [kind |-> "replies", parent |-> loaded.current_top_id,
                    token |-> loaded.reply_page_token]
  /\ pc = "list_call" =>
       /\ firstCall.kind = "replies"
       /\ reply_resp.nextPageToken = 0
       /\ loaded.current_top_id \in state.processed_top_level

ReplyPriorityAlways ==
  loaded.current_top_id # 0 => FirstCallIsCheckpointedReplies

\* C5 as amended: the same, for runs that do not suppress replies.
ReplyPriority ==
  loaded.current_top_id # 0 /\ ~cfg.no_replies => FirstCallIsCheckpointedReplies

\* C5 witness: a run resumed inside a thread's reply pages stands at its
\* first thread-list request.
ReplyPriorityWitness ==
  /\ loaded.current_top_id # 0
  /\ loaded.reply_page_token # 0
  /\ ~cfg.no_replies
  /\ pc = "list_call"
  /\ firstCall.kind = "replies"

\* C6: limit respect.
TopLevelCount(rs) == Cardinality({ i \in 1..Len(rs) : rs[i].parent_id = 0 })

Available == Cardinality(ThreadsOf(up))

Min(a, b) == IF a <= b THEN a ELSE b

LimitedRunEnded ==
  /\ pc = "exited"
  /\ cfg.max_top_level >= 1
  /\ StopClass(stop) \notin {"quota", "error"}

TotalRowLimit ==
  runNo > 0 /\ cfg.max_total >= 1 =>
    /\ Len(rows) <= cfg.max_total
    /\ Len(rows) = cfg.max_total =>
         /\ pc \in {"returned", "exited"}
         /\ StopClass(stop) \in {"limit_threads", "limit_replies"}
         /\ cfg.save_state_path => file.exists /\ file.data = state

\* C7 witness: the limit is reached while finishing a checkpointed thread.
TotalRowLimitWitness ==
  /\ pc = "returned"
  /\ stop = "max_total_resume"
  /\ cfg.max_total = 2
  /\ Len(rows) = 2
  /\ file.data = state

\* C8: quota stop is clean.  A remote call that raises quota exhaustion, at
\* any of the three call sites, makes the run return with the rows it had
\* before the call and with the checkpoint, when a path is configured,
\* written from its state.
CallSites == {"resume_call", "list_call", "reply_call"}

QuotaStopStep ==
  pc \in CallSites /\ outcome' = "quotaExceeded" =>
    /\ pc' = "returned"
    /\ StopClass(stop') = "quota"
    /\ rows' = rows
    /\ cfg.save_state_path => file'.exists /\ file'.data = state'

QuotaStopIsClean == [][QuotaStopStep]_vars

\* C8 witness: a run stopped by quota while finishing a checkpointed thread
\* returned the rows of the reply page before.
QuotaStopIsCleanWitness ==
  /\ pc = "returned"
  /\ outcome = "quotaExceeded"
  /\ stop = "quota_resume"
  /\ rows # <<>>
  /\ file.exists
  /\ file.data = state

\* C9: resumable thread position.  Over an upstream without repeated page
\* tokens, when the earlier runs of a fresh chain stopped on quota or on a
\* limit inside the thread list, the checkpoint they left lets a resuming
\* run without limits reach everything they had not collected: when it
\* completes, the ids of all runs are those of one uninterrupted run.
ResumableThreadPosition ==
  (/\ pc = "returned"
   /\ stop = "complete"
   /\ chainFresh
   /\ Linear(up)
   /\ NoLimits
   /\ faults = 0
   /\ prevStops \subseteq {"quota", "limit_threads"})
  => prevIds \cup Ids(rows) = UninterruptedIds(cfg.no_replies)

\* C10: termination.  Every run eventually returns or raises (or leaves the
\* rows the model follows).
Running ==
  pc \in {"resume_call", "resume_rows", "list_call", "items", "inline",
          "reply_call", "reply_rows"}

Termination == Running ~> pc \in {"returned", "raised", "cut"}

\* C11: a pagination fault is retried once.  Per page sequence of a run (the
\* thread list; one thread's reply pages): the first page-token-invalid
\* error on a request with a token resets the token to the start and the
\* request is retried; a later one on the same sequence propagates.  A reply
\* sequence ends with its first propagated error and the run with it, so at
\* a thread-list request the run's faults are those of the thread list.
PaginationFaultStep ==
  outcome' = "invalidPageToken" =>
    /\ pc = "list_call" /\ faults >= 1 => pc' = "raised"
    /\ pc = "list_call" /\ faults = 0 /\ page_token # 0 =>
         pc' = "list_call" /\ page_token' = 0
    /\ pc \in {"resume_call", "reply_call"} /\ reply_page # 0 =>
         pc' = pc /\ reply_page' = 0

PaginationFaultRetriedOnce == [][PaginationFaultStep]_vars

\* C12: a fatal error leaves the checkpoint untouched.  A remote call that
\* raises an error other than quota exhaustion or a page-token fault makes
\* the run raise; a raising step writes no checkpoint and changes neither
\* the state nor the rows, and a run that raised makes no further step but
\* leaving main, with the checkpoint file as it was.
FatalStep ==
  /\ pc \in CallSites /\ outcome' = "other" =>
       pc' = "raised" /\ StopClass(stop') = "error"
  /\ pc' = "raised" => file' = file /\ state' = state /\ rows' = rows
  /\ pc = "raised" =>
       pc' \in {"raised", "exited"} /\ file' = file /\ firstCall' = firstCall

FatalLeavesCheckpoint == [][FatalStep]_vars

\* C12 witness: a reply request raised a fatal error after the state had
\* moved past the last checkpoint written.
FatalLeavesCheckpointWitness ==
  /\ pc = "raised"
  /\ outcome = "other"
  /\ stop = "fatal_reply"
  /\ rows # <<>>
  /\ file.exists
  /\ file.data # state


\* C13: the checkpoint is usable after an abort.  Over an upstream without
\* repeated page tokens, when the first run was aborted by a fatal error
\* after it wrote a checkpoint (no file existed before it), and the second
\* run resumes from that checkpoint without limits and completes, the rows
\* main wrote for the aborted run (none: the error leaves main before the
\* output is written) together with the rows of the resuming run hold every
\* record of the video.
CheckpointUsableAfterAbort ==
  (/\ pc = "returned"
   /\ stop = "complete"
   /\ runNo = 2
   /\ chainFresh
   /\ Linear(up)
   /\ NoLimits
   /\ faults = 0
   /\ prevStops = {"error"}
   /\ loaded # FreshState(cfg))
  => prevIds \cup Ids(rows) = UninterruptedIds(cfg.no_replies)

\* C14: checkpoint on every exit path.  With a checkpoint path configured,
\* whenever fetch_all_comments has returned (thread list exhausted, a limit,
\* quota exhaustion) the checkpoint file exists and holds the traversal
\* state the run returned with.
CheckpointOnEveryExit ==
  pc = "returned" /\ cfg.save_state_path =>
    file.exists /\ file.data = state

\* C15: the relabelling covers every row.  When a pass over a label vector
\* has ended, every row has a cluster_id (line 88 did not raise), a noise
\* row shares its id with no other row, rows with the same cluster label
\* share one id, rows with different labels never share one, and every
\* singleton cluster has a larger id than every multi-member cluster.
PassEnded == cpc \in {"done", "keyerror"}

RowIndices == 1..Len(labels)

SizeOf(col, c) == Cardinality({ x \in DOMAIN col : col[x] = c })

RelabelCoversEveryRow ==
  PassEnded =>
    /\ cpc = "done"
    /\ \A a, b \in RowIndices :
         /\ a # b /\ labels[a] = Noise => cluster_id[a] # cluster_id[b]
         /\ labels[a] # Noise /\ labels[a] = labels[b] => cluster_id[a] = cluster_id[b]
         /\ labels[a] # labels[b] => cluster_id[a] # cluster_id[b]
         /\ SizeOf(cluster_id, cluster_id[a]) = 1 /\ SizeOf(cluster_id, cluster_id[b]) >= 2
              => cluster_id[a] > cluster_id[b]

DoneVersusInFlightStep ==
  /\ file'.exists =>
       file'.data.current_top_id \notin file'.data.processed_top_level
  /\ state'.current_top_id \notin state'.processed_top_level
  /\ Running /\ state'.processed_top_level # state.processed_top_level =>
       /\ state'.processed_top_level = state.processed_top_level \cup {top_id}
       /\ pc \in {"resume_rows", "reply_rows"}
       /\ reply_resp = listReplies(top_id, reply_page)
       /\ ridx > Len(reply_resp.items)
       /\ reply_resp.nextPageToken = 0
       /\ state'.current_top_id = 0
       /\ state'.reply_page_token = 0
       /\ cfg.save_state_path => file' = [exists |-> TRUE, data |-> state']

DoneVersusInFlight == [][DoneVersusInFlightStep]_vars

\* C17 witness: a resumed run has marked the checkpointed thread processed
\* and the checkpoint now names a later thread as the one in flight.
DoneVersusInFlightWitness ==
  /\ pc = "reply_call"
  /\ loaded.current_top_id # 0
  /\ loaded.current_top_id \in file.data.processed_top_level
  /\ file.data.current_top_id # 0
  /\ file.data.current_top_id # loaded.current_top_id
  /\ file.data = state

\* C18: strictly sequential traversal.  In a run that does not suppress
\* replies, the rows that follow a thread's top-level row up to the next
\* top-level row are that thread's replies: the inlined ones and then, for a
\* positive reply count, every reply page in order up to the page without a
\* next token; behind the last top-level row they are a prefix of these.
\* Whenever a thread-list request is due after a page, every thread of that
\* page has been emitted in this run or was skipped as processed, and those
\* with a positive reply count are marked processed.
RECURSIVE Concat(_)
Concat(ps) == IF ps = <<>> THEN <<>> ELSE Head(ps) \o Concat(Tail(ps))

FullReplies(t) ==
  t.inline \o (IF t.totalReplyCount # 0 THEN Concat(t.rpages) ELSE <<>>)

TopPositions == { i \in 1..Len(rows) : rows[i].parent_id = 0 }

LaterTops(i) == { j \in TopPositions : j > i }

SegmentEnd(i) ==
  IF LaterTops(i) = {} THEN Len(rows)
  ELSE (CHOOSE j \in LaterTops(i) : \A k \in LaterTops(i) : j <= k) - 1

SegmentIds(i) == [k \in 1..(SegmentEnd(i) - i) |-> rows[i + k].comment_id]

IsPrefix(a, b) == Len(a) <= Len(b) /\ a = SubSeq(b, 1, Len(a))

SequentialTraversal ==
  runNo > 0 /\ ~cfg.no_replies =>
    /\ \A i \in TopPositions :
         LET t == ThreadById(rows[i].comment_id) IN
         /\ \A k \in (i + 1)..SegmentEnd(i) : rows[k].parent_id = t.id
         /\ IF LaterTops(i) = {}
            THEN IsPrefix(SegmentIds(i), FullReplies(t))
            ELSE SegmentIds(i) = FullReplies(t)
    /\ pc = "list_call" =>
         \A k \in 1..Len(resp.items) :
           LET t == resp.items[k] IN
           /\ t.id \in Ids(rows) \cup state.processed_top_level
           /\ t.totalReplyCount # 0 => t.id \in state.processed_top_level

\* C18 witness: the second thread-list page is due after a page whose second
\* thread had two reply pages, both appended behind its top-level row.
SequentialTraversalWitness ==
  /\ ~cfg.no_replies
  /\ pc = "list_call"
  /\ page_token = 1
  /\ Len(resp.items) = 2
  /\ Len(rows) = 5
  /\ rows[2].parent_id = 0
  /\ SegmentIds(2) = << 21, 22, 23 >>
  /\ 2 \in state.processed_top_level

\* C19: duplicate-free accumulator.  Within one run over an upstream whose
\* page tokens do not repeat and that meets no page-token fault, the rows
\* returned hold every comment_id at most once.
AccumulatorDuplicateFree ==
  runNo > 0 /\ Linear(up) /\ faults = 0 =>
    \A a, b \in 1..Len(rows) : a # b => rows[a].comment_id # rows[b].comment_id

\* C20: reply position on a total-row stop.  Over an upstream without
\* repeated page tokens, when the earlier runs of a fresh chain stopped on
\* max_total while paging a thread's replies (in the main loop or while
\* finishing a checkpointed thread), the checkpoint they left lets a
\* resuming run without limits collect every reply they had not appended:
\* when it completes, the ids of all runs are those of one uninterrupted run.
ReplyPositionOnTotalStop ==
  (/\ pc = "returned"
   /\ stop = "complete"
   /\ chainFresh
   /\ Linear(up)
   /\ NoLimits
   /\ faults = 0
   /\ prevStops = {"limit_replies"})
  => prevIds \cup Ids(rows) = UninterruptedIds(cfg.no_replies)

====
